---- MODULE Spec2Model ----
(***************************************************************************)
(* Model of tap-spreadsheets-anywhere: the spreadsheet row reader          *)
(* (excel_handler.py), the type coercer and schema inference               *)
(* (conversion.py) and discovery / schema override (__init__.py).          *)
(*                                                                         *)
(* Text is modelled as a sequence of one-character strings so that         *)
(* lower-casing, substring tests, regular-expression substitutions,        *)
(* parsing and formatting are computed rather than assumed.                *)
(***************************************************************************)
EXTENDS Integers, Sequences, FiniteSets, TLC

VARIABLES
    \* ---- generator_wrapper (excel_handler.py) ----
    table_spec,      \* the options get_row_iterator reads from the table spec
    reader,          \* the raw rows pulled from the worksheet so far
    _skip_count,     \* rows skipped so far
    header_row,      \* None until the header row has been seen
    yielded,         \* the dictionaries yielded so far, in order
    gen_pc,          \* "iter" while the for loop runs, "done" after it
    \* ---- convert / coerce / convert_row (conversion.py) ----
    schema,          \* schema['properties']: column -> declared 'type'
    conv_in,         \* the arguments of the last call
    conv_out,        \* its result or the exception it raised
    conv_calls,      \* number of calls made
    \* ---- pick_datatype / generate_schema (conversion.py) ----
    counts,          \* the histogram handed to pick_datatype
    prefer_number_vs_integer,
    picked,          \* the datatype pick_datatype returned
    \* ---- discover (__init__.py) ----
    tables,          \* config['tables'], one outcome record per table_spec
    next_table,      \* position of the for loop over config['tables']
    streams,         \* names of the catalog entries appended so far
    error_log,       \* names logged by LOGGER.error
    \* ---- override_schema_with_config (__init__.py) ----
    inferred_schema, \* inferred properties: column -> descriptor
    configured_overrides, \* schema_overrides as the configuration gave them
    schema_overrides,\* table_spec['schema_overrides'] (mutated in place)
    merged_schema,   \* the result of merge_dicts
    ov_pc,
    \* ---- sync (__init__.py) ----
    state,           \* state[stream]['modified_since']; 0 when the stream has no entry
    stream_idx,      \* position of the for loop over the selected streams
    modified_since,  \* the time the listing of the current stream starts from
    max_records_per_run,
    target_files,    \* the files listed for the current stream
    file_idx,        \* position of the for loop over target_files
    records_streamed,
    returned,        \* what write_file returned for each file of the stream
    sync_pc

readerVars   == <<table_spec, reader, _skip_count, header_row, yielded, gen_pc>>
convVars     == <<schema, conv_in, conv_out, conv_calls>>
pickVars     == <<counts, prefer_number_vs_integer, picked>>
discoverVars == <<tables, next_table, streams, error_log>>
overrideVars == <<inferred_schema, configured_overrides, schema_overrides, merged_schema, ov_pc>>
syncVars     == <<state, stream_idx, modified_since, max_records_per_run,
                 target_files, file_idx, records_streamed, returned, sync_pc>>
vars == <<readerVars, convVars, pickVars, discoverVars, overrideVars, syncVars>>

(***************************************************************************)
(* Bounds of the model.                                                    *)
(***************************************************************************)
MaxRows == 4
MaxSkip == 1
MaxCalls == 2
MaxCount == 2
MaxTables == 3
MaxStreams == 2
MaxFiles == 2
MaxTime == 2
MaxFileRows == 2

(***************************************************************************)
(* Python text primitives.                                                 *)
(***************************************************************************)
Digits == <<"0", "1", "2", "3", "4", "5", "6", "7", "8", "9">>
UpperChars == <<"A", "B", "C", "D", "E", "F", "G", "H", "I", "J", "K", "L", "M",
                "N", "O", "P", "Q", "R", "S", "T", "U", "V", "W", "X", "Y", "Z">>
LowerChars == <<"a", "b", "c", "d", "e", "f", "g", "h", "i", "j", "k", "l", "m",
                "n", "o", "p", "q", "r", "s", "t", "u", "v", "w", "x", "y", "z">>

Range(f) == {f[i] : i \in DOMAIN f}

IsDigit(c) == c \in Range(Digits)
DigitVal(c) == (CHOOSE i \in DOMAIN Digits : Digits[i] = c) - 1
IsSpace(c) == c = " "
\* \w of the re module: letters, digits and the underscore
IsWordChar(c) == c \in Range(UpperChars) \cup Range(LowerChars) \cup Range(Digits) \cup {"_"}

LowerChar(c) ==
    IF c \in Range(UpperChars)
    THEN LowerChars[CHOOSE i \in DOMAIN UpperChars : UpperChars[i] = c]
    ELSE c

\* str.lower()
Lower(s) == [i \in DOMAIN s |-> LowerChar(s[i])]

RECURSIVE LStrip(_)
LStrip(s) == IF s # <<>> /\ IsSpace(Head(s)) THEN LStrip(Tail(s)) ELSE s

RECURSIVE RStrip(_)
RStrip(s) ==
    IF s # <<>> /\ IsSpace(s[Len(s)]) THEN RStrip(SubSeq(s, 1, Len(s) - 1)) ELSE s

\* str.strip()
Strip(s) == RStrip(LStrip(s))

\* sub in s  (substring test on str)
Contains(sub, s) ==
    \E k \in 0..(Len(s) - Len(sub)) : SubSeq(s, k + 1, k + Len(sub)) = sub

\* str.isdigit()
IsDigitStr(s) == s # <<>> /\ \A i \in DOMAIN s : IsDigit(s[i])

RECURSIVE StrToNat(_)
StrToNat(s) ==
    IF s = <<>> THEN 0
    ELSE 10 * StrToNat(SubSeq(s, 1, Len(s) - 1)) + DigitVal(s[Len(s)])

RECURSIVE NatToStr(_)
NatToStr(n) ==
    IF n < 10 THEN <<Digits[n + 1]>>
    ELSE NatToStr(n \div 10) \o <<Digits[(n % 10) + 1]>>

\* re.sub(r"[^\w\s]", '', s)
StripPunctuation(s) == SelectSeq(s, LAMBDA c : IsWordChar(c) \/ IsSpace(c))

\* re.sub(r"\s+", '_', s)
RECURSIVE CollapseWhitespace(_)
CollapseWhitespace(s) ==
    IF s = <<>> THEN <<>>
    ELSE IF IsSpace(Head(s))
         THEN <<"_">> \o CollapseWhitespace(LStrip(s))
         ELSE <<Head(s)>> \o CollapseWhitespace(Tail(s))

\* str.replace(' ', '_')
ReplaceSpaces(s) == [i \in DOMAIN s |-> IF s[i] = " " THEN "_" ELSE s[i]]

(***************************************************************************)
(* Python values held by cells and records.                                *)
(* kind "float" holds n thousandths (44197.5 is n = 44197500).             *)
(***************************************************************************)
PyNone == [kind |-> "none", s |-> <<>>, n |-> 0]
PyStr(s) == [kind |-> "str", s |-> s, n |-> 0]
PyInt(n) == [kind |-> "int", s |-> <<>>, n |-> n]
PyFloat(milli) == [kind |-> "float", s |-> <<>>, n |-> milli]

IsStr(v) == v.kind = "str"

\* truth value of a Python object: None, '', 0 and 0.0 are falsy
Truthy(v) ==
    CASE v.kind = "none" -> FALSE
      [] v.kind = "str" -> v.s # <<>>
      [] OTHER -> v.n # 0

(***************************************************************************)
(* Python dict, kept as the sequence of its <<key, value>> items in        *)
(* insertion order; assigning to an existing key replaces its value.       *)
(***************************************************************************)
DictHas(d, k) == \E i \in DOMAIN d : d[i][1] = k
DictGet(d, k) == d[CHOOSE i \in DOMAIN d : d[i][1] = k][2]
DictSet(d, k, v) ==
    IF DictHas(d, k)
    THEN [i \in DOMAIN d |-> IF d[i][1] = k THEN <<k, v>> ELSE d[i]]
    ELSE Append(d, <<k, v>>)
DictKeys(d) == [i \in DOMAIN d |-> d[i][1]]

\* seq[i] for a Python index i (0-based; a negative index counts from the end)
PyIndex(seq, i) == IF i >= 0 THEN seq[i + 1] ELSE seq[Len(seq) + i + 1]

(***************************************************************************)
(* excel_handler.py                                                        *)
(***************************************************************************)
T_Column == <<"C", "o", "l", "u", "m", "n">>
T_column == <<"c", "o", "l", "u", "m", "n">>

\* f"Column{idx + 1}" of get_header_map, for the 0-based index idx
HeaderMapKey(cell, idx) ==
    Lower(IF IsStr(cell) THEN cell.s ELSE T_Column \o NatToStr(idx + 1))

RECURSIVE HeaderMapFrom(_, _, _)
HeaderMapFrom(row, idx, header_map) ==
    IF idx >= Len(row) THEN header_map
    ELSE HeaderMapFrom(row, idx + 1,
                       DictSet(header_map, HeaderMapKey(row[idx + 1], idx), idx))

get_header_map(row) == HeaderMapFrom(row, 0, <<>>)

\* re.match(r"^column(\d+)$", col_lower)
MatchesColumnN(col_lower) ==
    /\ Len(col_lower) > Len(T_column)
    /\ SubSeq(col_lower, 1, Len(T_column)) = T_column
    /\ IsDigitStr(SubSeq(col_lower, Len(T_column) + 1, Len(col_lower)))

ColumnNIndex(col_lower) ==
    StrToNat(SubSeq(col_lower, Len(T_column) + 1, Len(col_lower))) - 1

RECURSIVE FilterIndicesFrom(_, _, _)
FilterIndicesFrom(cols, hdr, header_map) ==
    IF cols = <<>> THEN <<>>
    ELSE LET col_lower == Strip(Lower(Head(cols)))
             rest == FilterIndicesFrom(Tail(cols), hdr, header_map)
         IN  IF DictHas(header_map, col_lower)
             THEN <<DictGet(header_map, col_lower)>> \o rest
             ELSE IF MatchesColumnN(col_lower) /\ ColumnNIndex(col_lower) < Len(hdr)
                  THEN <<ColumnNIndex(col_lower)>> \o rest
                  ELSE rest

get_filter_column_indices(cols, hdr) ==
    FilterIndicesFrom(cols, hdr, get_header_map(hdr))

\* the synthesized name numbered from 0 instead of 1
format_header_Mut(header_cell, index, encapsulate) ==
    LET formatted_key ==
            IF IsStr(header_cell) THEN header_cell.s
            ELSE T_Column \o NatToStr(index)
    IN  IF encapsulate
        THEN <<"[">> \o formatted_key \o <<"]">>
        ELSE Lower(CollapseWhitespace(StripPunctuation(formatted_key)))

format_header(header_cell, index, encapsulate) ==
    LET formatted_key ==
            IF IsStr(header_cell) THEN header_cell.s
            ELSE T_Column \o NatToStr(index + 1)
    IN  IF encapsulate
        THEN <<"[">> \o formatted_key \o <<"]">>
        ELSE Lower(CollapseWhitespace(StripPunctuation(formatted_key)))

should_include_column(header_cell, index, included, included_lower) ==
    IF included # <<>>
    THEN IF IsStr(header_cell) /\ header_cell.s \in Range(included)
         THEN TRUE
         ELSE LET formatted_key ==
                      CollapseWhitespace(
                          IF IsStr(header_cell) THEN Lower(header_cell.s)
                          ELSE T_Column \o NatToStr(index + 1))
              IN  \E i \in DOMAIN included_lower :
                      Contains(included_lower[i], formatted_key)
    ELSE TRUE

should_exclude_column(header_cell, index, excluded_lower) ==
    LET formatted_key ==
            IF IsStr(header_cell)
            THEN CollapseWhitespace(Lower(header_cell.s))
            ELSE T_column \o NatToStr(index + 1)
        column_index_key == T_column \o NatToStr(index + 1)
    IN  formatted_key \in excluded_lower \/ column_index_key \in excluded_lower

\* the defaults generator_wrapper derives from its arguments
EffExcluded(ts) ==
    IF ts.included_columns # <<>> THEN <<>> ELSE ts.excluded_columns
IncludedLower(ts) ==
    [i \in DOMAIN ts.included_columns |-> Lower(ts.included_columns[i])]
ExcludedLower(ts) ==
    {CollapseWhitespace(Lower(c)) : c \in Range(EffExcluded(ts))}

\* the filtered_columns check of one data row: TRUE when the row is skipped
RowSkipped(ts, hdr, row) ==
    /\ ts.filtered_columns # <<>>
    /\ LET filter_column_indices ==
               get_filter_column_indices(ts.filtered_columns, hdr)
       IN  \A k \in DOMAIN filter_column_indices :
               ~Truthy(PyIndex(row, filter_column_indices[k]))

\* whether the cell loop reaches the assignment for the column at index
ColumnEmitted(ts, hdr, index) ==
    IF ts.included_columns # <<>>
    THEN should_include_column(hdr[index + 1], index,
                               ts.included_columns, IncludedLower(ts))
    ELSE IF EffExcluded(ts) # <<>>
         THEN ~should_exclude_column(hdr[index + 1], index, ExcludedLower(ts))
         ELSE TRUE

\* the key under which the cell loop stores the column at index
FinalKey(ts, hdr, index) ==
    LET formatted_key ==
            ReplaceSpaces(StripPunctuation(
                format_header(hdr[index + 1], index, ts.encapsulate_with_brackets)))
    IN  IF ts.rename_mapping # <<>> /\ DictHas(ts.rename_mapping, Lower(formatted_key))
        THEN DictGet(ts.rename_mapping, Lower(formatted_key))
        ELSE formatted_key

RECURSIVE CellLoop(_, _, _, _, _)
CellLoop(ts, hdr, row, index, to_return) ==
    IF index >= Len(row) THEN to_return
    ELSE CellLoop(ts, hdr, row, index + 1,
                  IF ColumnEmitted(ts, hdr, index)
                  THEN DictSet(to_return, FinalKey(ts, hdr, index), row[index + 1])
                  ELSE to_return)

NoHeader == [isNone |-> TRUE, cells |-> <<>>]

\* an off-by-one in the skip test
InSkipPhase_Mut(count, skip) == count <= skip

\* the condition of "if _skip_count < skip_initial"
InSkipPhase(count, skip) == count < skip

\* what the loop keeps of the row it has identified as the header row
HeaderOf(row) == [isNone |-> FALSE, cells |-> row]

(***************************************************************************)
(* The inputs of the row reader.                                           *)
(***************************************************************************)
T_Name == <<"N", "a", "m", "e">>
T_Id == <<"I", "d">>
T_FullName == <<"F", "u", "l", "l", " ", "N", "a", "m", "e">>
T_x == <<"x">>
T_NoSuchColumn == <<"N", "o", "S", "u", "c", "h", "C", "o", "l", "u", "m", "n">>
T_Column1 == T_Column \o <<"1">>
T_Column2 == T_Column \o <<"2">>
T_name == Lower(T_Name)
T_full_name == <<"f", "u", "l", "l", "_", "n", "a", "m", "e">>

RawRows ==
    { <<PyNone, PyStr(T_Name)>>,
      <<PyStr(<<>>), PyStr(T_Name)>>,
      <<PyStr(T_Id), PyStr(T_FullName)>>,
      <<PyInt(5), PyNone>>,
      <<PyInt(0), PyStr(T_x)>> }

FilterLists == { <<>>, <<T_NoSuchColumn>>, <<T_name>>, <<T_Column1, T_Name>> }

\* <<included_columns, excluded_columns>>
Selections ==
    { <<<<>>, <<>>>>,
      <<<<T_Column1>>, <<>>>>,
      <<<<T_Name>>, <<T_Column1>>>>,
      <<<<>>, <<T_Column1>>>>,
      <<<<>>, <<T_FullName>>>> }

RenameMappings == { <<>>, << <<T_name, T_full_name>> >> }

TableSpecs ==
    { [encapsulate_with_brackets |-> e, excluded_columns |-> sel[2],
       skip_initial |-> k, included_columns |-> sel[1],
       filtered_columns |-> f, rename_mapping |-> r] :
      e \in BOOLEAN, sel \in Selections, k \in 0..MaxSkip,
      f \in FilterLists, r \in RenameMappings }

ReaderIdle ==
    /\ table_spec = CHOOSE ts \in TableSpecs : TRUE
    /\ reader = <<>>
    /\ _skip_count = 0
    /\ header_row = NoHeader
    /\ yielded = <<>>
    /\ gen_pc = "done"

ReaderInit ==
    /\ table_spec \in TableSpecs
    /\ reader = <<>>
    /\ _skip_count = 0
    /\ header_row = NoHeader
    /\ yielded = <<>>
    /\ gen_pc = "iter"

\* for row in reader: the branch that skips an initial row
SkipInitialRow ==
    /\ gen_pc = "iter" /\ Len(reader) < MaxRows
    /\ InSkipPhase(_skip_count, table_spec.skip_initial)
    /\ \E row \in RawRows : reader' = Append(reader, row)
    /\ _skip_count' = _skip_count + 1
    /\ UNCHANGED <<table_spec, header_row, yielded, gen_pc>>
    /\ UNCHANGED <<convVars, pickVars, discoverVars, overrideVars, syncVars>>

\* for row in reader: the branch that identifies the header row
IdentifyHeaderRow ==
    /\ gen_pc = "iter" /\ Len(reader) < MaxRows
    /\ ~InSkipPhase(_skip_count, table_spec.skip_initial)
    /\ header_row.isNone
    /\ \E row \in RawRows :
           /\ reader' = Append(reader, row)
           /\ header_row' = HeaderOf(row)
    /\ UNCHANGED <<table_spec, _skip_count, yielded, gen_pc>>
    /\ UNCHANGED <<convVars, pickVars, discoverVars, overrideVars, syncVars>>

\* for row in reader: a data row, filtered and then converted to a dict
ProcessDataRow ==
    /\ gen_pc = "iter" /\ Len(reader) < MaxRows
    /\ ~InSkipPhase(_skip_count, table_spec.skip_initial)
    /\ ~header_row.isNone
    /\ \E row \in RawRows :
           /\ reader' = Append(reader, row)
           /\ yielded' =
                  IF RowSkipped(table_spec, header_row.cells, row)
                  THEN yielded
                  ELSE Append(yielded,
                              CellLoop(table_spec, header_row.cells, row, 0, <<>>))
    /\ UNCHANGED <<table_spec, _skip_count, header_row, gen_pc>>
    /\ UNCHANGED <<convVars, pickVars, discoverVars, overrideVars, syncVars>>

\* the reader is exhausted and the for loop ends
ReaderExhausted ==
    /\ gen_pc = "iter"
    /\ gen_pc' = "done"
    /\ UNCHANGED <<table_spec, reader, _skip_count, header_row, yielded>>
    /\ UNCHANGED <<convVars, pickVars, discoverVars, overrideVars, syncVars>>


(***************************************************************************)
(* conversion.py: the builtins convert relies on.                          *)
(***************************************************************************)
Abs(n) == IF n < 0 THEN -n ELSE n
Sign(n) == IF n < 0 THEN -1 ELSE 1

\* s without one leading sign character, and the sign it carried
Unsigned(s) == IF s # <<>> /\ Head(s) \in {"-", "+"} THEN Tail(s) ELSE s
SignOf(s) == IF s # <<>> /\ Head(s) = "-" THEN -1 ELSE 1

\* str.lstrip("-+")
RECURSIVE LStripSigns(_)
LStripSigns(s) ==
    IF s # <<>> /\ Head(s) \in {"-", "+"} THEN LStripSigns(Tail(s)) ELSE s

\* position of the first "." of s, or 0
DotPos(s) ==
    IF \E i \in DOMAIN s : s[i] = "."
    THEN CHOOSE i \in DOMAIN s : s[i] = "." /\ \A j \in 1..(i - 1) : s[j] # "."
    ELSE 0

\* the digits after the decimal point read as thousandths
FracMilli(digits) ==
    StrToNat(SubSeq(digits \o <<"0", "0", "0">>, 1, 3))

\* str(datum)
PyStrOf(v) ==
    CASE v.kind = "str" -> v.s
      [] v.kind = "int" ->
            (IF v.n < 0 THEN <<"-">> ELSE <<>>) \o NatToStr(Abs(v.n))
      [] v.kind = "float" ->
            LET whole == Abs(v.n) \div 1000
                frac == Abs(v.n) % 1000
                d3 == <<Digits[(frac \div 100) + 1], Digits[((frac \div 10) % 10) + 1],
                        Digits[(frac % 10) + 1]>>
                shown == IF frac % 100 = 0 THEN SubSeq(d3, 1, 1)
                         ELSE IF frac % 10 = 0 THEN SubSeq(d3, 1, 2) ELSE d3
            IN  (IF v.n < 0 THEN <<"-">> ELSE <<>>) \o NatToStr(whole) \o <<".">> \o shown
      [] OTHER -> <<"N", "o", "n", "e">>

\* int(datum): [exc, n]
PyIntOf(v) ==
    CASE v.kind = "int" -> [exc |-> "none", n |-> v.n]
      [] v.kind = "float" -> [exc |-> "none", n |-> Sign(v.n) * (Abs(v.n) \div 1000)]
      [] v.kind = "str" ->
            LET body == Unsigned(Strip(v.s))
            IN  IF IsDigitStr(body)
                THEN [exc |-> "none", n |-> SignOf(Strip(v.s)) * StrToNat(body)]
                ELSE [exc |-> "ValueError", n |-> 0]
      [] OTHER -> [exc |-> "TypeError", n |-> 0]

\* float(datum): [exc, n] with n in thousandths
PyFloatOf(v) ==
    CASE v.kind = "int" -> [exc |-> "none", n |-> v.n * 1000]
      [] v.kind = "float" -> [exc |-> "none", n |-> v.n]
      [] v.kind = "str" ->
            LET body == Unsigned(Strip(v.s))
                dot == DotPos(body)
                whole == IF dot = 0 THEN body ELSE SubSeq(body, 1, dot - 1)
                frac == IF dot = 0 THEN <<>> ELSE SubSeq(body, dot + 1, Len(body))
                ok == /\ whole \o frac # <<>>
                      /\ \A i \in DOMAIN whole : IsDigit(whole[i])
                      /\ \A i \in DOMAIN frac : IsDigit(frac[i])
            IN  IF ok
                THEN [exc |-> "none",
                      n |-> SignOf(Strip(v.s)) * (StrToNat(whole) * 1000 + FracMilli(frac))]
                ELSE [exc |-> "ValueError", n |-> 0]
      [] OTHER -> [exc |-> "TypeError", n |-> 0]

(***************************************************************************)
(* datetime: proleptic Gregorian ordinals, as datetime.fromordinal and     *)
(* datetime.toordinal compute them.                                        *)
(***************************************************************************)
MinOrdinal == 1
MaxOrdinal == 3652059

IsLeap(y) == y % 4 = 0 /\ (y % 100 # 0 \/ y % 400 = 0)
DaysInMonth(y, m) ==
    IF m = 2 THEN (IF IsLeap(y) THEN 29 ELSE 28)
    ELSE IF m \in {4, 6, 9, 11} THEN 30 ELSE 31

RECURSIVE DaysBeforeMonth(_, _)
DaysBeforeMonth(y, m) ==
    IF m = 1 THEN 0 ELSE DaysBeforeMonth(y, m - 1) + DaysInMonth(y, m - 1)

DaysBeforeYear(y) ==
    (y - 1) * 365 + (y - 1) \div 4 - (y - 1) \div 100 + (y - 1) \div 400

\* datetime(y, m, d).toordinal()
ToOrdinal(y, m, d) == DaysBeforeYear(y) + DaysBeforeMonth(y, m) + d

\* datetime.fromordinal(ordinal), for MinOrdinal <= ordinal <= MaxOrdinal
FromOrdinal(ordinal) ==
    LET n0 == ordinal - 1
        n400 == n0 \div 146097
        r400 == n0 % 146097
        n100 == r400 \div 36524
        r100 == r400 % 36524
        n4 == r100 \div 1461
        r4 == r100 % 1461
        n1 == r4 \div 365
        r1 == r4 % 365
        year == n400 * 400 + 1 + n100 * 100 + n4 * 4 + n1
    IN  IF n1 = 4 \/ n100 = 4
        THEN [y |-> year - 1, m |-> 12, d |-> 31]
        ELSE LET month == CHOOSE m \in 1..12 :
                     /\ DaysBeforeMonth(year, m) <= r1
                     /\ r1 < DaysBeforeMonth(year, m) + DaysInMonth(year, m)
             IN  [y |-> year, m |-> month, d |-> r1 - DaysBeforeMonth(year, month) + 1]

Pad(n, width) ==
    LET digits == NatToStr(n)
    IN  [i \in 1..(width - Len(digits)) |-> "0"] \o digits

\* datetime.isoformat() of a datetime in UTC without microseconds
IsoFormat(y, m, d, hour, minute, second) ==
    Pad(y, 4) \o <<"-">> \o Pad(m, 2) \o <<"-">> \o Pad(d, 2) \o <<"T">>
    \o Pad(hour, 2) \o <<":">> \o Pad(minute, 2) \o <<":">> \o Pad(second, 2)
    \o <<"+", "0", "0", ":", "0", "0">>

\* dateutil.parser.parse(datum): TypeError for a datum that is not text; of
\* the text it accepts the model reads the form YYYY-MM-DD
IsIsoDate(s) ==
    /\ Len(s) = 10 /\ s[5] = "-" /\ s[8] = "-"
    /\ \A i \in {1, 2, 3, 4, 6, 7, 9, 10} : IsDigit(s[i])
    /\ StrToNat(SubSeq(s, 1, 4)) >= 1
    /\ StrToNat(SubSeq(s, 6, 7)) \in 1..12
    /\ StrToNat(SubSeq(s, 9, 10)) \in
           1..DaysInMonth(StrToNat(SubSeq(s, 1, 4)), StrToNat(SubSeq(s, 6, 7)))

DateutilParse(v) ==
    IF v.kind # "str" THEN [exc |-> "TypeError", y |-> 0, m |-> 0, d |-> 0]
    ELSE IF IsIsoDate(v.s)
         THEN [exc |-> "none", y |-> StrToNat(SubSeq(v.s, 1, 4)),
               m |-> StrToNat(SubSeq(v.s, 6, 7)), d |-> StrToNat(SubSeq(v.s, 9, 10))]
         ELSE [exc |-> "ValueError", y |-> 0, m |-> 0, d |-> 0]

(***************************************************************************)
(* conversion.py                                                           *)
(***************************************************************************)
\* float_hour_to_time(fh) for fh given in thousandths
float_hour_to_time(fh) ==
    LET hours == fh \div 1000
        hourSeconds == fh % 1000
        minutes == (hourSeconds * 60) \div 1000
        seconds == (hourSeconds * 60) % 1000
    IN  [hour |-> hours, minute |-> minutes, second |-> (seconds * 60) \div 1000]

\* the argument convert hands to float_hour_to_time: float(datum) % 1
TimeArgument(milli) == milli % 1000

\* the ordinal convert hands to datetime.fromordinal
SerialOrdinal(datum) == ToOrdinal(1900, 1, 1) + PyIntOf(datum).n - 2

Result(value, tag) == [exc |-> "none", value |-> value, tag |-> tag]
Raised(exc) == [exc |-> exc, value |-> PyNone, tag |-> "none"]

\* the handler of "except (ValueError, TypeError)" in the date-time branch
ExcelSerialFallback(datum) ==
    IF datum.kind = "float"
    THEN IF SerialOrdinal(datum) < MinOrdinal \/ SerialOrdinal(datum) > MaxOrdinal
         THEN Raised("ValueError")
         ELSE LET dt == FromOrdinal(SerialOrdinal(datum))
                  t == float_hour_to_time(TimeArgument(datum.n))
              IN  Result(PyStr(IsoFormat(dt.y, dt.m, dt.d, t.hour, t.minute, t.second)),
                         "date-time")
    ELSE Result(PyStr(PyStrOf(datum)), "string")

\* the integer branch: whether int(datum) succeeds and str(datum) is digits
IntegerBranch(datum) ==
    /\ PyIntOf(datum).exc = "none"
    /\ IsDigitStr(LStripSigns(PyStrOf(datum)))

\* a convert whose integer branch ignores the desired type
convert_Mut(datum, desired_type) ==
    IF datum = PyNone \/ datum = PyStr(<<>>) THEN Result(PyNone, "none")
    ELSE IF IntegerBranch(datum)
    THEN Result(PyInt(PyIntOf(datum).n), "integer")
    ELSE IF desired_type \in {"None", "number"} /\ PyFloatOf(datum).exc = "none"
    THEN Result(PyFloat(PyFloatOf(datum).n), "number")
    ELSE IF desired_type = "date-time"
    THEN LET parsed == DateutilParse(datum)
         IN  IF parsed.exc = "none"
             THEN Result(PyStr(IsoFormat(parsed.y, parsed.m, parsed.d, 0, 0, 0)),
                         "date-time")
             ELSE ExcelSerialFallback(datum)
    ELSE Result(PyStr(PyStrOf(datum)), "string")

convert(datum, desired_type) ==
    IF datum = PyNone \/ datum = PyStr(<<>>) THEN Result(PyNone, "none")
    ELSE IF desired_type \in {"None", "integer"} /\ IntegerBranch(datum)
    THEN Result(PyInt(PyIntOf(datum).n), "integer")
    ELSE IF desired_type \in {"None", "number"} /\ PyFloatOf(datum).exc = "none"
    THEN Result(PyFloat(PyFloatOf(datum).n), "number")
    ELSE IF desired_type = "date-time"
    THEN LET parsed == DateutilParse(datum)
         IN  IF parsed.exc = "none"
             THEN Result(PyStr(IsoFormat(parsed.y, parsed.m, parsed.d, 0, 0, 0)),
                         "date-time")
             ELSE ExcelSerialFallback(datum)
    ELSE Result(PyStr(PyStrOf(datum)), "string")

\* a schema 'type': a type name (isList FALSE, one name) or a list of names
TypeName(t) == [isList |-> FALSE, names |-> <<t>>]
TypeList(ts) == [isList |-> TRUE, names |-> ts]

\* list.remove("null"): the first occurrence goes
RemoveNull(names) ==
    IF \E i \in DOMAIN names : names[i] = "null"
    THEN LET k == CHOOSE i \in DOMAIN names :
                      names[i] = "null" /\ \A j \in 1..(i - 1) : names[j] # "null"
         IN  SubSeq(names, 1, k - 1) \o SubSeq(names, k + 1, Len(names))
    ELSE names

\* coerce(datum, declared_types): the outcome and the list as coerce leaves it
coerce(datum, declared_types) ==
    IF datum = PyNone \/ datum = PyStr(<<>>)
    THEN [out |-> Result(PyNone, "none"), types |-> declared_types]
    ELSE IF declared_types.isList
    THEN LET left == RemoveNull(declared_types.names)
         IN  IF left = <<>>
             THEN [out |-> Raised("IndexError"), types |-> TypeList(left)]
             ELSE [out |-> convert(datum, left[1]), types |-> TypeList(left)]
    ELSE [out |-> convert(datum, declared_types.names[1]), types |-> declared_types]

\* declared_types as convert_row reads it for a key
DeclaredTypes(props, key) ==
    IF key \in DOMAIN props THEN props[key] ELSE TypeList(<<"string", "null">>)

\* convert_row(row, schema): [exc, rec, props]; props is schema['properties'] as
\* the call leaves it
RECURSIVE ConvertRowFrom(_, _, _)
ConvertRowFrom(items, props, to_return) ==
    IF items = <<>> THEN [exc |-> "none", rec |-> to_return, props |-> props]
    ELSE LET key == Head(items)[1]
             c == coerce(Head(items)[2], DeclaredTypes(props, key))
             props2 == IF key \in DOMAIN props
                       THEN [props EXCEPT ![key] = c.types] ELSE props
         IN  IF c.out.exc # "none"
             THEN [exc |-> c.out.exc, rec |-> <<>>, props |-> props2]
             ELSE ConvertRowFrom(Tail(items), props2,
                                 DictSet(to_return, key, c.out.value))

convert_row(row, props) == ConvertRowFrom(row, props, <<>>)

(***************************************************************************)
(* Calls of convert, coerce and convert_row.                               *)
(***************************************************************************)
T_42 == <<"4", "2">>
T_42_5 == <<"4", "2", ".", "5">>
T_3_0 == <<"3", ".", "0">>
T_abc == <<"a", "b", "c">>
T_minus7 == <<"-", "7">>
T_date == <<"2", "0", "2", "1", "-", "0", "1", "-", "0", "1">>

\* floats are taken with fractions that are multiples of 1/8, which binary
\* floating point represents and multiplies by 60 exactly
Data ==
    { PyNone, PyStr(<<>>),
      PyStr(T_42), PyStr(T_42_5), PyStr(T_3_0), PyStr(T_abc), PyStr(T_minus7),
      PyStr(T_date),
      PyInt(42), PyInt(0),
      PyFloat(44197500), PyFloat(44197125), PyFloat(750), PyFloat(3000),
      PyFloat(-693594000) }

DesiredTypes == {"None", "integer", "number", "date-time", "string", "boolean"}

SchemaTypes ==
    { TypeList(<<"null", "integer">>), TypeList(<<"null", "number">>),
      TypeList(<<"null", "string">>), TypeList(<<"integer", "null">>),
      TypeList(<<"null", "date-time">>), TypeList(<<"null">>),
      TypeName("integer"), TypeName("date-time") }

\* dateutil reads a bare number as a date relative to the current day; the
\* calls made ask for 'date-time' only where DateutilParse models the answer
DateParseModelled(datum) ==
    \/ datum.kind # "str"
    \/ IsIsoDate(datum.s)
    \/ \A i \in DOMAIN datum.s : ~IsDigit(datum.s[i])

FirstNonNull(t) ==
    IF t.isList
    THEN (IF RemoveNull(t.names) = <<>> THEN "null" ELSE RemoveNull(t.names)[1])
    ELSE t.names[1]

Columns == {"amount"}
RowValues == { PyNone, PyStr(T_42), PyStr(T_abc), PyInt(42), PyFloat(44197500) }
Rows ==
    { << <<"amount", a>>, <<"extra", e>> >> : a \in Data, e \in RowValues }

NoCall == [fn |-> "none", datum |-> PyNone, types |-> TypeName("None"),
           row |-> <<>>, props |-> <<>>]
NoOut == [exc |-> "none", value |-> PyNone, tag |-> "none", rec |-> <<>>]

ConvIdle ==
    /\ schema = [c \in Columns |-> TypeList(<<"null", "string">>)]
    /\ conv_in = NoCall
    /\ conv_out = NoOut
    /\ conv_calls = MaxCalls

ConvInit ==
    /\ schema \in [Columns -> SchemaTypes]
    /\ conv_in = NoCall
    /\ conv_out = NoOut
    /\ conv_calls = 0

CallConvert ==
    /\ conv_calls < MaxCalls
    /\ \E datum \in Data, desired_type \in DesiredTypes :
           /\ desired_type = "date-time" => DateParseModelled(datum)
           /\ conv_in' = [fn |-> "convert", datum |-> datum,
                          types |-> TypeName(desired_type), row |-> <<>>,
                          props |-> <<>>]
           /\ LET r == convert(datum, desired_type)
              IN  conv_out' = [exc |-> r.exc, value |-> r.value, tag |-> r.tag,
                               rec |-> <<>>]
    /\ conv_calls' = conv_calls + 1
    /\ UNCHANGED schema
    /\ UNCHANGED <<readerVars, pickVars, discoverVars, overrideVars, syncVars>>

CallCoerce ==
    /\ conv_calls < MaxCalls
    /\ \E datum \in Data, declared_types \in SchemaTypes :
           /\ FirstNonNull(declared_types) = "date-time" => DateParseModelled(datum)
           /\ conv_in' = [fn |-> "coerce", datum |-> datum, types |-> declared_types,
                          row |-> <<>>, props |-> <<>>]
           /\ LET r == coerce(datum, declared_types).out
              IN  conv_out' = [exc |-> r.exc, value |-> r.value, tag |-> "none",
                               rec |-> <<>>]
    /\ conv_calls' = conv_calls + 1
    /\ UNCHANGED schema
    /\ UNCHANGED <<readerVars, pickVars, discoverVars, overrideVars, syncVars>>

CallConvertRow ==
    /\ conv_calls < MaxCalls
    /\ \E row \in Rows :
           /\ \A i \in DOMAIN row :
                  FirstNonNull(DeclaredTypes(schema, row[i][1])) = "date-time"
                      => DateParseModelled(row[i][2])
           /\ conv_in' = [fn |-> "convert_row", datum |-> PyNone,
                          types |-> TypeName("None"), row |-> row, props |-> schema]
           /\ LET r == convert_row(row, schema)
              IN  /\ conv_out' = [exc |-> r.exc, value |-> PyNone, tag |-> "none",
                                  rec |-> r.rec]
                  /\ schema' = r.props
    /\ conv_calls' = conv_calls + 1
    /\ UNCHANGED <<readerVars, pickVars, discoverVars, overrideVars, syncVars>>

(***************************************************************************)
(* pick_datatype and generate_schema (conversion.py).                      *)
(***************************************************************************)
Tags == {"integer", "number", "date-time", "string"}

\* counts.get(tag, 0)
CountOf(c, tag) == IF tag \in DOMAIN c THEN c[tag] ELSE 0

\* the elif branch without its len(counts) == 2 test
MixedNumeric_Mut(c) ==
    /\ CountOf(c, "integer") > 0
    /\ CountOf(c, "number") > 0

\* the test of the elif branch for a mixed integer / number column
MixedNumeric(c) ==
    /\ Cardinality(DOMAIN c) = 2
    /\ CountOf(c, "integer") > 0
    /\ CountOf(c, "number") > 0

pick_datatype(c, prefer) ==
    IF Cardinality(DOMAIN c) = 1
    THEN IF CountOf(c, "integer") > 0
         THEN (IF prefer THEN "number" ELSE "integer")
         ELSE IF CountOf(c, "number") > 0 THEN "number"
         ELSE IF CountOf(c, "date-time") > 0 THEN "date-time"
         ELSE "string"
    ELSE IF MixedNumeric(c) THEN "number"
    ELSE "string"

NoFormat == "none"
Descriptor(type, format) == [type |-> type, format |-> format]

\* the descriptor generate_schema stores for a resolved datatype
SchemaEntry(datatype) ==
    IF datatype = "date-time"
    THEN Descriptor(TypeList(<<"null", "string">>), "date-time")
    ELSE Descriptor(TypeList(<<"null", datatype>>), NoFormat)

\* count_sample(sample, start): start is a function column -> histogram
RECURSIVE CountSampleFrom(_, _)
CountSampleFrom(items, start) ==
    IF items = <<>> THEN start
    ELSE LET key == Head(items)[1]
             datatype == convert(Head(items)[2], "None").tag
             had == IF key \in DOMAIN start THEN start[key] ELSE <<>>
             now == IF datatype = "none" THEN had
                    ELSE [t \in (DOMAIN had) \cup {datatype} |->
                              IF t = datatype THEN CountOf(had, t) + 1 ELSE had[t]]
         IN  CountSampleFrom(Tail(items),
                 [k \in (DOMAIN start) \cup {key} |-> IF k = key THEN now ELSE start[k]])

RECURSIVE count_samples(_)
count_samples(samples) ==
    IF samples = <<>> THEN <<>>
    ELSE CountSampleFrom(samples[Len(samples)],
                         count_samples(SubSeq(samples, 1, Len(samples) - 1)))

generate_schema(samples, prefer) ==
    LET c == count_samples(samples)
    IN  [key \in DOMAIN c |-> SchemaEntry(pick_datatype(c[key], prefer))]

Histograms ==
    UNION { [present -> 1..MaxCount] : present \in SUBSET Tags }

PickIdle ==
    /\ counts = <<>>
    /\ prefer_number_vs_integer = FALSE
    /\ picked = "string"

PickInit ==
    /\ counts \in Histograms
    /\ prefer_number_vs_integer \in BOOLEAN
    /\ picked = "unset"

PickDatatype ==
    /\ picked = "unset"
    /\ picked' = pick_datatype(counts, prefer_number_vs_integer)
    /\ UNCHANGED <<counts, prefer_number_vs_integer>>
    /\ UNCHANGED <<readerVars, convVars, discoverVars, overrideVars, syncVars>>

(***************************************************************************)
(* __init__.py: discover                                                   *)
(***************************************************************************)
\* the parameters of conversion.generate_schema
GenerateSchemaParameters == {"samples", "prefer_number_vs_integer"}

\* the arguments discover passes to conversion.generate_schema by keyword
DiscoverKeywords == {"prefer_number_vs_integer", "prefer_schema_as_string"}

\* a call with a keyword the function does not take raises TypeError
GenerateSchemaCallRaises == ~(DiscoverKeywords \subseteq GenerateSchemaParameters)

\* what the external collaborators do for one table_spec
TableOutcomes ==
    [listing : {"ok", "raises"}, sampling : {"ok", "raises"}]

\* the body of the try block for one table_spec: TRUE when it raises
SchemaBuildRaises(t) ==
    \/ t.listing = "raises"
    \/ t.sampling = "raises"
    \/ GenerateSchemaCallRaises

DiscoverIdle ==
    /\ tables = <<>>
    /\ next_table = 1
    /\ streams = <<>>
    /\ error_log = <<>>

DiscoverInit ==
    /\ tables \in UNION { [1..n -> TableOutcomes] : n \in 1..MaxTables }
    /\ next_table = 1
    /\ streams = <<>>
    /\ error_log = <<>>

\* one iteration of "for table_spec in config['tables']"; a table is named
\* by its position in the list
DiscoverTable ==
    /\ next_table <= Len(tables)
    /\ IF SchemaBuildRaises(tables[next_table])
       THEN /\ error_log' = Append(error_log, next_table)
            /\ UNCHANGED streams
       ELSE /\ streams' = Append(streams, next_table)
            /\ UNCHANGED error_log
    /\ next_table' = next_table + 1
    /\ UNCHANGED tables
    /\ UNCHANGED <<readerVars, convVars, pickVars, overrideVars, syncVars>>

DiscoverDone == next_table > Len(tables)

(***************************************************************************)
(* __init__.py: override_schema_with_config                                *)
(***************************************************************************)
IncludesDateTime(type) == \E i \in DOMAIN type.names : type.names[i] = "date-time"

\* a rewrite that looks only at the first entry of a list
OverrideDescriptor_Mut(col_type) ==
    IF col_type.type.isList /\ col_type.type.names # <<>>
       /\ col_type.type.names[1] = "date-time"
    THEN Descriptor(TypeList(<<"null", "string">>), "date-time")
    ELSE IF ~col_type.type.isList /\ col_type.type.names[1] = "date-time"
         THEN Descriptor(TypeName("string"), "date-time")
         ELSE col_type

\* the rewrite override_datetime_type applies to one override
OverrideDescriptor(col_type) ==
    IF col_type.type.isList /\ IncludesDateTime(col_type.type)
    THEN Descriptor(TypeList(<<"null", "string">>), "date-time")
    ELSE IF ~col_type.type.isList /\ col_type.type.names[1] = "date-time"
         THEN Descriptor(TypeName("string"), "date-time")
         ELSE col_type

\* overrides merged as configured, without the rewrite
override_datetime_type_Mut(overrides) == overrides

override_datetime_type(overrides) ==
    [col_name \in DOMAIN overrides |-> OverrideDescriptor(overrides[col_name])]

\* merge_dicts on two column descriptors: the keys of second win
MergeDescriptor(first, second) ==
    Descriptor(second.type,
               IF second.format # NoFormat THEN second.format ELSE first.format)

\* merge_dicts on two 'properties' mappings
MergeProperties(first, second) ==
    [key \in (DOMAIN first) \cup (DOMAIN second) |->
        IF key \in DOMAIN second
        THEN (IF key \in DOMAIN first
              THEN MergeDescriptor(first[key], second[key])
              ELSE second[key])
        ELSE first[key]]

override_schema_with_config(inferred, overrides) ==
    MergeProperties(inferred, override_datetime_type(overrides))

T_10 == <<"1", "0">>
Samples ==
    { << << <<"amount", PyStr(T_10)>>, <<"when", PyStr(T_abc)>> >> >>,
      << << <<"amount", PyStr(T_42_5)>>, <<"when", PyNone>> >> >>,
      << << <<"amount", PyStr(T_10)>> >>, << <<"amount", PyStr(T_42_5)>> >> >>,
      << << <<"when", PyInt(42)>> >> >> }

OverrideTypes ==
    { TypeName("date-time"), TypeList(<<"null", "date-time">>),
      TypeList(<<"date-time">>), TypeName("integer"),
      TypeList(<<"null", "string">>) }

OverrideColumns == {"when", "extra"}

ConfiguredOverrides ==
    UNION { [cols -> {Descriptor(t, NoFormat) : t \in OverrideTypes}] :
            cols \in SUBSET OverrideColumns }

OverrideIdle ==
    /\ inferred_schema = <<>>
    /\ configured_overrides = <<>>
    /\ schema_overrides = <<>>
    /\ merged_schema = <<>>
    /\ ov_pc = "done"

OverrideInit ==
    /\ \E samples \in Samples, prefer \in BOOLEAN :
           inferred_schema = generate_schema(samples, prefer)
    /\ configured_overrides \in ConfiguredOverrides
    /\ schema_overrides = configured_overrides
    /\ merged_schema = <<>>
    /\ ov_pc = "start"

OverrideSchemaWithConfig ==
    /\ ov_pc = "start"
    /\ schema_overrides' = override_datetime_type(schema_overrides)
    /\ merged_schema' = override_schema_with_config(inferred_schema, schema_overrides)
    /\ ov_pc' = "done"
    /\ UNCHANGED <<inferred_schema, configured_overrides>>
    /\ UNCHANGED <<readerVars, convVars, pickVars, discoverVars, syncVars>>

(***************************************************************************)
(* __init__.py: sync.  Times are integers; 0 stands for a stream without   *)
(* an entry in the state and for the start_date of its table_spec.         *)
(***************************************************************************)
StartDate == 0

\* file_utils.get_matching_objects(table_spec, modified_since): the files
\* modified at or after modified_since, in non-decreasing last_modified order
Listings(since) ==
    { files \in UNION { [1..n -> [last_modified : 1..MaxTime, rows : 0..MaxFileRows]] :
                        n \in 0..MaxFiles } :
        /\ \A i \in DOMAIN files : files[i].last_modified >= since
        /\ \A i \in DOMAIN files : \A j \in DOMAIN files :
               i <= j => files[i].last_modified <= files[j].last_modified }

\* file_utils.write_file(key, table_spec, schema, max_records): the number of
\* records written, which stops at max_records when that is positive
write_file(rows, max_records) ==
    IF 0 < max_records /\ max_records <= rows THEN max_records ELSE rows

\* the loop reaches the state update without the cap check stopping it
RecordsWatermark_Mut(cap, streamed) == TRUE

\* "if 0 < max_records_per_run <= records_streamed: break" is not taken
RecordsWatermark(cap, streamed) == ~(0 < cap /\ cap <= streamed)

SyncIdle ==
    /\ state = [s \in 1..MaxStreams |-> 0]
    /\ stream_idx = MaxStreams
    /\ modified_since = StartDate
    /\ max_records_per_run = -1
    /\ target_files = <<>>
    /\ file_idx = 1
    /\ records_streamed = 0
    /\ returned = <<>>
    /\ sync_pc = "done"

SyncInit ==
    /\ state \in [1..MaxStreams -> 0..MaxTime]
    /\ stream_idx = 0
    /\ modified_since = StartDate
    /\ max_records_per_run = -1
    /\ target_files = <<>>
    /\ file_idx = 1
    /\ records_streamed = 0
    /\ returned = <<>>
    /\ sync_pc = "streams"

\* for stream in catalog.get_selected_streams(state): up to the file loop
StartStream ==
    /\ sync_pc = "streams" /\ stream_idx < MaxStreams
    /\ stream_idx' = stream_idx + 1
    /\ LET since == IF state[stream_idx + 1] # 0 THEN state[stream_idx + 1]
                    ELSE StartDate
       IN  /\ modified_since' = since
           /\ target_files' \in Listings(since)
    /\ max_records_per_run' \in {-1} \cup (1..(MaxFileRows + 1))
    /\ records_streamed' = 0
    /\ file_idx' = 1
    /\ returned' = <<>>
    /\ sync_pc' = "files"
    /\ UNCHANGED state
    /\ UNCHANGED <<readerVars, convVars, pickVars, discoverVars, overrideVars>>

\* for t_file in target_files: one iteration
SyncFile ==
    /\ sync_pc = "files" /\ file_idx <= Len(target_files)
    /\ LET t_file == target_files[file_idx]
           n == write_file(t_file.rows, max_records_per_run - records_streamed)
       IN  /\ records_streamed' = records_streamed + n
           /\ returned' = Append(returned, n)
           /\ IF RecordsWatermark(max_records_per_run, records_streamed + n)
              THEN /\ state' = [state EXCEPT ![stream_idx] = t_file.last_modified]
                   /\ file_idx' = file_idx + 1
                   /\ UNCHANGED sync_pc
              ELSE /\ sync_pc' = "streams"
                   /\ UNCHANGED <<state, file_idx>>
    /\ UNCHANGED <<stream_idx, modified_since, max_records_per_run, target_files>>
    /\ UNCHANGED <<readerVars, convVars, pickVars, discoverVars, overrideVars>>

\* the file loop ends with the last file
EndOfFiles ==
    /\ sync_pc = "files" /\ file_idx > Len(target_files)
    /\ sync_pc' = "streams"
    /\ UNCHANGED <<state, stream_idx, modified_since, max_records_per_run,
                   target_files, file_idx, records_streamed, returned>>
    /\ UNCHANGED <<readerVars, convVars, pickVars, discoverVars, overrideVars>>

\* a stream without a config block is skipped
SkipStream ==
    /\ sync_pc = "streams" /\ stream_idx < MaxStreams
    /\ stream_idx' = stream_idx + 1
    /\ target_files' = <<>>
    /\ returned' = <<>>
    /\ records_streamed' = 0
    /\ file_idx' = 1
    /\ modified_since' = IF state[stream_idx + 1] # 0 THEN state[stream_idx + 1]
                         ELSE StartDate
    /\ UNCHANGED <<state, max_records_per_run, sync_pc>>
    /\ UNCHANGED <<readerVars, convVars, pickVars, discoverVars, overrideVars>>

(***************************************************************************)
(* Extraction: convert_row driven by the merged schema, as sync hands      *)
(* merged_schema to every row of every file.                               *)
(***************************************************************************)
\* the 'type' of every column of a properties mapping
TypesOf(props) == [c \in DOMAIN props |-> props[c].type]

\* the <<datum, desired_type>> pairs coerce passes to convert for a row
RECURSIVE ConvertCalls(_, _)
ConvertCalls(items, props) ==
    IF items = <<>> THEN <<>>
    ELSE LET datum == Head(items)[2]
             declared == DeclaredTypes(props, Head(items)[1])
         IN  IF datum = PyNone \/ datum = PyStr(<<>>)
             THEN ConvertCalls(Tail(items), props)
             ELSE IF declared.isList /\ RemoveNull(declared.names) = <<>>
                  THEN <<>>
                  ELSE << <<datum, FirstNonNull(declared)>> >>
                       \o ConvertCalls(Tail(items), props)

ExtractValues == { PyNone, PyStr(T_date), PyStr(T_abc), PyFloat(44197500) }

ExtractRows ==
    { << <<"amount", a>>, <<"when", w>>, <<"extra", e>> >> :
        a \in {PyNone, PyStr(T_42)}, w \in ExtractValues, e \in ExtractValues }

ExtractInit ==
    /\ schema = [c \in Columns |-> TypeList(<<"null", "string">>)]
    /\ conv_in = NoCall
    /\ conv_out = NoOut
    /\ conv_calls = 0

\* one row of a file: convert_row(row, merged_schema)
ExtractRow ==
    /\ ov_pc = "done"
    /\ conv_calls < MaxCalls
    /\ \E row \in ExtractRows :
           LET r == convert_row(row, TypesOf(merged_schema))
           IN  /\ conv_in' = [fn |-> "convert_row", datum |-> PyNone,
                              types |-> TypeName("None"), row |-> row,
                              props |-> TypesOf(merged_schema)]
               /\ conv_out' = [exc |-> r.exc, value |-> PyNone, tag |-> "none",
                               rec |-> r.rec]
               /\ merged_schema' =
                      [c \in DOMAIN merged_schema |->
                          Descriptor(r.props[c], merged_schema[c].format)]
    /\ conv_calls' = conv_calls + 1
    /\ UNCHANGED <<schema, inferred_schema, configured_overrides, schema_overrides, ov_pc>>
    /\ UNCHANGED <<readerVars, pickVars, discoverVars, syncVars>>

(***************************************************************************)
(* The specifications.                                                     *)
(***************************************************************************)
NextReader ==
    \/ SkipInitialRow
    \/ IdentifyHeaderRow
    \/ ProcessDataRow
    \/ ReaderExhausted

InitReader == ReaderInit /\ ConvIdle /\ PickIdle /\ DiscoverIdle /\ OverrideIdle /\ SyncIdle

SpecReader == InitReader /\ [][NextReader]_vars

NextConvert ==
    \/ CallConvert
    \/ CallCoerce
    \/ CallConvertRow

InitConvert == ReaderIdle /\ ConvInit /\ PickIdle /\ DiscoverIdle /\ OverrideIdle /\ SyncIdle

SpecConvert == InitConvert /\ [][NextConvert]_vars

NextPick == PickDatatype

InitPick == ReaderIdle /\ ConvIdle /\ PickInit /\ DiscoverIdle /\ OverrideIdle /\ SyncIdle

SpecPick == InitPick /\ [][NextPick]_vars

NextDiscover == DiscoverTable

InitDiscover == ReaderIdle /\ ConvIdle /\ PickIdle /\ DiscoverInit /\ OverrideIdle /\ SyncIdle

SpecDiscover == InitDiscover /\ [][NextDiscover]_vars

NextOverride == OverrideSchemaWithConfig

InitOverride == ReaderIdle /\ ConvIdle /\ PickIdle /\ DiscoverIdle /\ OverrideInit /\ SyncIdle

SpecOverride == InitOverride /\ [][NextOverride]_vars

NextSync ==
    \/ StartStream
    \/ SyncFile
    \/ EndOfFiles
    \/ SkipStream

InitSync == ReaderIdle /\ ConvIdle /\ PickIdle /\ DiscoverIdle /\ OverrideIdle /\ SyncInit

SpecSync == InitSync /\ [][NextSync]_vars

NextExtract ==
    \/ OverrideSchemaWithConfig
    \/ ExtractRow

InitExtract == ReaderIdle /\ ExtractInit /\ PickIdle /\ DiscoverIdle /\ OverrideInit /\ SyncIdle

SpecExtract == InitExtract /\ [][NextExtract]_vars

(***************************************************************************)
(* Properties.                                                             *)
(***************************************************************************)
Seq1(n) == [i \in 1..n |-> i]

\* the step of generator_wrapper that handles a data row
DataRowStep ==
    /\ ~header_row.isNone
    /\ Len(reader') = Len(reader) + 1

\* C1: with a non-empty filtered_columns list a data row is dropped only if
\* every resolved filter column holds a falsy value, it is kept when a
\* resolved filter column is non-empty, and it is kept when no configured
\* name resolves to an index.
C1_Claim ==
    [][ (DataRowStep /\ table_spec.filtered_columns # <<>>) =>
        LET row == reader'[Len(reader')]
            indices == get_filter_column_indices(table_spec.filtered_columns,
                                                 header_row.cells)
            kept == Len(yielded') = Len(yielded) + 1
        IN  kept <=> (\/ indices = <<>>
                      \/ \E k \in DOMAIN indices : Truthy(PyIndex(row, indices[k])))
      ]_vars

\* the time of day the claim derives from the fraction of a day (thousandths)
ClaimedTime(frac) ==
    LET hours == (frac * 24) \div 1000
        rest == (frac * 24) % 1000
    IN  [hour |-> hours, minute |-> (rest * 60) \div 1000,
         second |-> (((rest * 60) % 1000) * 60) \div 1000]

\* C2: convert(v, 'date-time') of a float v that fails date parsing is the
\* ISO-8601 UTC date-time 1899-12-30 plus int(v) days whose time of day is
\* the fraction of v taken as a fraction of a 24-hour day.
C2_Claim ==
    (/\ conv_in.fn = "convert"
     /\ conv_in.types = TypeName("date-time")
     /\ conv_in.datum.kind = "float"
     /\ conv_out.exc = "none")
    => LET v == conv_in.datum
           dt == FromOrdinal(ToOrdinal(1899, 12, 30) + PyIntOf(v).n)
           t == ClaimedTime(v.n % 1000)
       IN  conv_out.value =
               PyStr(IsoFormat(dt.y, dt.m, dt.d, t.hour, t.minute, t.second))

\* a text of the form YYYY-MM-DDTHH:MM:SS+00:00
IsIsoDateTime(s) ==
    /\ Len(s) = 25 /\ s[11] = "T" /\ IsIsoDate(SubSeq(s, 1, 10))
    /\ SubSeq(s, 20, 25) = <<"+", "0", "0", ":", "0", "0">>

\* value is a scalar of the declared type
HasType(value, type) ==
    CASE type = "integer" -> value.kind = "int"
      [] type = "number" -> value.kind = "float"
      [] type = "string" -> value.kind = "str"
      [] type = "date-time" -> value.kind = "str" /\ IsIsoDateTime(value.s)
      [] OTHER -> FALSE

\* the declared type of a column at the time of the call
DeclaredType(key) == FirstNonNull(DeclaredTypes(conv_in.props, key))

ConvertRowReturned == conv_in.fn = "convert_row" /\ conv_out.exc = "none"

\* C3 as stated: every value of the record convert_row returns is null or a
\* scalar of the type declared for its column.
C3_Original ==
    ConvertRowReturned =>
        \A i \in DOMAIN conv_out.rec :
            LET key == conv_out.rec[i][1]
                value == conv_out.rec[i][2]
            IN  value = PyNone \/ HasType(value, DeclaredType(key))

\* C3: every value of the record convert_row returns is null, a scalar of
\* the type declared for its column, or the text str(raw value) of a raw
\* value that does not convert to the declared type.
C3_Theorem ==
    ConvertRowReturned =>
        \A i \in DOMAIN conv_out.rec :
            LET key == conv_out.rec[i][1]
                value == conv_out.rec[i][2]
                raw == DictGet(conv_in.row, key)
            IN  \/ value = PyNone
                \/ HasType(value, DeclaredType(key))
                \/ value = PyStr(PyStrOf(raw))

C3_Witness ==
    /\ ConvertRowReturned
    /\ conv_in.props["amount"] = TypeList(<<"null", "integer">>)
    /\ DictGet(conv_in.row, "amount") = PyStr(T_abc)
    /\ DictGet(conv_out.rec, "amount") = PyStr(T_abc)
    /\ DictGet(conv_out.rec, "extra") = PyStr(T_42)

\* the tables whose file listing and sampling return normally, in order
ExpectedStreams ==
    SelectSeq(Seq1(Len(tables)),
              LAMBDA i : tables[i].listing = "ok" /\ tables[i].sampling = "ok")

\* C4: the catalog discover returns holds exactly one entry for every table
\* whose listing and sampling return normally and none for a table whose
\* schema build raises, whatever happened to the tables before it.
C4_Claim ==
    DiscoverDone =>
        /\ streams = ExpectedStreams
        /\ \A i \in 1..Len(tables) :
               (i \in Range(error_log)) <=> (i \notin Range(ExpectedStreams))

\* the datatype the claim assigns to the set of tags present in a histogram
ClaimedPick(present, prefer) ==
    CASE present = {"integer"} -> (IF prefer THEN "number" ELSE "integer")
      [] present = {"number"} -> "number"
      [] present = {"date-time"} -> "date-time"
      [] present = {"string"} -> "string"
      [] present = {"integer", "number"} -> "number"
      [] OTHER -> "string"

\* C5: pick_datatype returns the datatype of the claim's table for every
\* histogram: the single tag (integer turned to number under the preference
\* flag), number for exactly {integer, number}, string otherwise.
C5_Theorem ==
    picked # "unset" =>
        picked = ClaimedPick(DOMAIN counts, prefer_number_vs_integer)

C5_Witness ==
    /\ picked = "number"
    /\ DOMAIN counts = {"integer", "number"}
    /\ ~prefer_number_vs_integer

\* the dictionaries the claim expects of the rows pulled so far
ExpectedYield(ts, rows) ==
    IF Len(rows) <= ts.skip_initial + 1 THEN <<>>
    ELSE LET hdr == rows[ts.skip_initial + 1]
             kept == SelectSeq(SubSeq(rows, ts.skip_initial + 2, Len(rows)),
                               LAMBDA r : ~RowSkipped(ts, hdr, r))
         IN  [i \in DOMAIN kept |-> CellLoop(ts, hdr, kept[i], 0, <<>>)]

\* C6: generator_wrapper discards the first skip_initial rows, takes the
\* next row as the header and never emits it, and yields one dictionary for
\* each later row that passes the row filter, in input order.
C6_Theorem == yielded = ExpectedYield(table_spec, reader)

C6_Witness ==
    /\ gen_pc = "done"
    /\ table_spec.skip_initial = 1
    /\ table_spec.filtered_columns # <<>>
    /\ Len(reader) = 4
    /\ Len(yielded) = 1
    /\ ~RowSkipped(table_spec, reader[2], reader[4])

\* C7: convert and coerce never raise.
C7_Claim ==
    conv_in.fn \in {"convert", "coerce"} => conv_out.exc = "none"

\* the header cells the claim speaks of, and those the code synthesizes for
BlankHeader(cell) == ~IsStr(cell) \/ cell.s = <<>>
NonStringHeader(cell) == ~IsStr(cell)

\* the column at position p reaches the dictionary under its own name
EmittedUnrenamed(p, name) ==
    /\ ColumnEmitted(table_spec, header_row.cells, p - 1)
    /\ ~DictHas(table_spec.rename_mapping, Lower(name))

\* C8 as stated: a header cell that is not a non-empty string (None, a
\* non-string value or the empty string) names its column column<i+1> when
\* encapsulate_with_brackets is false.
C8_Original ==
    \A r \in DOMAIN yielded : \A p \in DOMAIN header_row.cells :
        (/\ BlankHeader(header_row.cells[p])
         /\ ~table_spec.encapsulate_with_brackets
         /\ EmittedUnrenamed(p, T_column \o NatToStr(p)))
        => DictHas(yielded[r], T_column \o NatToStr(p))

\* C8: a header cell that is not a string (None or a non-string value) names
\* its column column<i+1> when encapsulate_with_brackets is false; an
\* empty-string header cell is a string and names its column by the empty
\* key.
C8_Theorem ==
    \A r \in DOMAIN yielded : \A p \in DOMAIN header_row.cells :
        /\ (/\ NonStringHeader(header_row.cells[p])
            /\ ~table_spec.encapsulate_with_brackets
            /\ EmittedUnrenamed(p, T_column \o NatToStr(p)))
           => DictHas(yielded[r], T_column \o NatToStr(p))
        /\ (/\ header_row.cells[p] = PyStr(<<>>)
            /\ ~table_spec.encapsulate_with_brackets
            /\ EmittedUnrenamed(p, <<>>))
           => (DictHas(yielded[r], <<>>) /\ (p = 1 => ~DictHas(yielded[r], T_column \o <<"1">>)))

C8_Witness ==
    /\ Len(yielded) >= 1
    /\ ~table_spec.encapsulate_with_brackets
    /\ table_spec.included_columns = <<>>
    /\ table_spec.excluded_columns = <<>>
    /\ header_row.cells = <<PyNone, PyStr(T_Name)>>
    /\ DictKeys(yielded[1]) = <<T_column \o <<"1">>, T_name>>

\* C9: for a header cell with no string value an included_columns entry
\* "Column<i+1>" makes the column emitted, and with no include list an
\* excluded_columns entry "Column<i+1>" makes it dropped.
C9_Claim ==
    \A r \in DOMAIN yielded : \A p \in DOMAIN header_row.cells :
        LET entry == T_Column \o NatToStr(p)
            key == FinalKey(table_spec, header_row.cells, p - 1)
        IN  NonStringHeader(header_row.cells[p]) =>
                /\ entry \in Range(table_spec.included_columns)
                       => DictHas(yielded[r], key)
                /\ (/\ table_spec.included_columns = <<>>
                    /\ entry \in Range(table_spec.excluded_columns))
                       => ~DictHas(yielded[r], key)

OverrideDone == ov_pc = "done"

IsOrIncludesDateTime(type) == IncludesDateTime(type)

\* C10 as stated: every override whose type is 'date-time' or a list that
\* includes it becomes {type: ['null', 'string'], format: 'date-time'}, the
\* descriptor generate_schema emits for a date-time column.
C10_Original ==
    OverrideDone =>
        \A col \in DOMAIN configured_overrides :
            IsOrIncludesDateTime(configured_overrides[col].type) =>
                /\ schema_overrides[col] = SchemaEntry("date-time")
                /\ merged_schema[col] = SchemaEntry("date-time")

\* C10: an override whose type is a list that includes 'date-time' becomes
\* {type: ['null', 'string'], format: 'date-time'}, the descriptor
\* generate_schema emits for a date-time column; an override whose type is
\* the name 'date-time' becomes {type: 'string', format: 'date-time'}; the
\* rewritten override is what the merge stores for the column.
C10_Theorem ==
    OverrideDone =>
        \A col \in DOMAIN configured_overrides :
            LET type == configured_overrides[col].type
            IN  /\ (type.isList /\ IncludesDateTime(type)) =>
                       /\ schema_overrides[col] = SchemaEntry("date-time")
                       /\ merged_schema[col] = SchemaEntry("date-time")
                /\ type = TypeName("date-time") =>
                       /\ schema_overrides[col]
                              = Descriptor(TypeName("string"), "date-time")
                       /\ merged_schema[col]
                              = Descriptor(TypeName("string"), "date-time")

C10_Witness ==
    /\ OverrideDone
    /\ "when" \in DOMAIN inferred_schema
    /\ DOMAIN configured_overrides = {"when", "extra"}
    /\ configured_overrides["when"].type = TypeList(<<"null", "date-time">>)
    /\ configured_overrides["extra"].type = TypeName("date-time")
    /\ merged_schema["when"] = SchemaEntry("date-time")

\* C11: coercing rows leaves the declared schema unchanged: no call of
\* convert_row changes schema['properties'], so every column descriptor that
\* admitted null before the call admits it after.
C11_Claim == [][schema' = schema]_vars

RECURSIVE SumTo(_, _)
SumTo(seq, k) == IF k = 0 THEN 0 ELSE SumTo(seq, k - 1) + seq[k]

\* the per-run cap is reached once total records have been streamed
CapReached(total) == 0 < max_records_per_run /\ max_records_per_run <= total

\* the files of the current stream that write_file returned for without the
\* cap being reached during them
CompletedFiles == {k \in DOMAIN returned : ~CapReached(SumTo(returned, k))}

\* the watermark of the current stream is that of its latest completed file,
\* or the one the stream started from when it has completed none
WatermarkIsLatestCompleted ==
    stream_idx >= 1 =>
        state[stream_idx] =
            IF CompletedFiles = {} THEN modified_since
            ELSE target_files[CHOOSE k \in CompletedFiles :
                                  \A j \in CompletedFiles : j <= k].last_modified

\* C12: with a stream's files listed in non-decreasing last_modified order,
\* the stream's watermark is the last_modified of the latest file processed
\* to completion and never moves backward; it changes only in the step in
\* which write_file has returned for that file, and the file during which
\* max_records_per_run is reached leaves it as it was.
C12_Theorem ==
    [][ /\ \A s \in DOMAIN state : state'[s] >= state[s]
        /\ WatermarkIsLatestCompleted'
        /\ state' # state =>
               /\ Len(returned') = Len(returned) + 1
               /\ state' = [state EXCEPT ![stream_idx] =
                                target_files[Len(returned')].last_modified]
        /\ CapReached(records_streamed') => state' = state
      ]_vars

C12_Witness ==
    /\ sync_pc = "streams"
    /\ stream_idx = 1
    /\ Len(returned) = 2
    /\ CompletedFiles = {1}
    /\ CapReached(records_streamed)
    /\ state[1] = target_files[1].last_modified
    /\ state[1] > modified_since
    /\ target_files[2].last_modified > state[1]

\* the columns the schema declares as date-time: inferred so by
\* generate_schema or overridden with a type that is or includes 'date-time'
DateTimeColumns ==
    {c \in DOMAIN inferred_schema : inferred_schema[c].format = "date-time"}
    \cup {c \in DOMAIN configured_overrides :
              IncludesDateTime(configured_overrides[c].type)}

\* C13: in a schema produced by generate_schema and merged through
\* override_schema_with_config no column's 'type' is or contains
\* 'date-time'; convert_row, which reads 'type' alone, therefore never calls
\* convert with desired type 'date-time', and every non-empty value of a
\* date-time column is emitted as str(value).
C13_Theorem ==
    /\ OverrideDone =>
           \A c \in DOMAIN merged_schema :
               /\ ~IncludesDateTime(merged_schema[c].type)
               /\ c \in DateTimeColumns =>
                      /\ merged_schema[c].format = "date-time"
                      /\ FirstNonNull(merged_schema[c].type) = "string"
    /\ conv_in.fn = "convert_row" =>
           \A i \in DOMAIN ConvertCalls(conv_in.row, conv_in.props) :
               ConvertCalls(conv_in.row, conv_in.props)[i][2] # "date-time"
    /\ ConvertRowReturned =>
           \A c \in DateTimeColumns :
                  LET raw == DictGet(conv_in.row, c)
                  IN  DictGet(conv_out.rec, c) =
                          IF raw = PyNone \/ raw = PyStr(<<>>) THEN PyNone
                          ELSE PyStr(PyStrOf(raw))

C13_Witness ==
    /\ conv_in.fn = "convert_row"
    /\ "when" \in DOMAIN inferred_schema
    /\ "when" \in DOMAIN configured_overrides
    /\ configured_overrides["when"].type = TypeList(<<"null", "date-time">>)
    /\ "extra" \in DOMAIN configured_overrides
    /\ configured_overrides["extra"].type = TypeName("date-time")
    /\ DictGet(conv_in.row, "when") = PyFloat(44197500)
    /\ DictGet(conv_out.rec, "when") = PyStr(PyStrOf(PyFloat(44197500)))
    /\ DictGet(conv_out.rec, "extra") = PyStr(T_date)

====
